---------------------------- MODULE Spec2Model ----------------------------
(***************************************************************************)
(* CertifyAI backend: the agent orchestrator of backend/agent.py           *)
(* (run_analysis_agent: analysis call, tool-selection call, dispatch loop, *)
(* result) and the /analyze endpoint of backend/app.py.                    *)
(*                                                                         *)
(* A text is a sequence of tokens.  A token is a code-fence marker, a      *)
(* whitespace run, a complete JSON document, or a piece of prose.          *)
(* The generative model and Firestore are external: their replies and      *)
(* their failures are nondeterministic inputs of the actions.              *)
(***************************************************************************)
EXTENDS Naturals, Sequences, FiniteSets, TLC

VARIABLES
    pc,                   \* position of run_analysis_agent
    user_id,              \* its first parameter
    document_text,        \* its second parameter
    analysis_json_string, \* the cleaned first reply (agent.py 129-133)
    parts,                \* response.candidates[0].content.parts
    idx,                  \* position of the dispatch loop in parts (1-based)
    actions_taken,        \* the list built by the dispatch loop
    final_result,         \* what run_analysis_agent returned, or NoResult
    error,                \* the exception that left run_analysis_agent
    db,                   \* Firestore: the documents added, in order
    trace,                \* calls made to the model and tool bodies entered
    apc,                  \* position of the /analyze request of app.py
    request_data,         \* request.get_json() of that request
    response,             \* the HTTP response of that request
    app_model_calls,      \* calls of analyze_document_with_gemini
    analysis_result_text, \* what analyze_document_with_gemini returned
    app_error,            \* the exception caught at app.py 166
    document_id           \* what save_analysis_to_vault of app.py returned

vars == <<pc, user_id, document_text, analysis_json_string, parts, idx,
          actions_taken, final_result, error, db, trace,
          apc, request_data, response, app_model_calls,
          analysis_result_text, app_error, document_id>>

agentVars == <<pc, user_id, document_text, analysis_json_string, parts, idx,
               actions_taken, final_result, error, trace>>

appVars == <<apc, request_data, response, app_model_calls,
             analysis_result_text, app_error, document_id>>

---------------------------------------------------------------------------
(* Bounds *)

MaxParts == 2

---------------------------------------------------------------------------
(* Texts and JSON *)

\* The opening marker of a fenced json block (three backquotes and "json")
FenceJson == "[fence]json"
\* The bare marker (three backquotes)
Fence == "[fence]"
Space == " "

\* Tokens that are each one complete JSON document, and the value json.loads
\* gives for it: its type and, for an object, its field names.
JsonDocs == {"{analysis}", "{summary}", "[]"}

JsonValue(tok) ==
    CASE tok = "{analysis}" -> [type |-> "object", fields |-> {"summary", "risk_analysis"}]
      [] tok = "{summary}"  -> [type |-> "object", fields |-> {"summary"}]
      [] OTHER              -> [type |-> "array", fields |-> {}]

RECURSIVE LStrip(_)
LStrip(text) ==
    IF text # <<>> /\ Head(text) = Space THEN LStrip(Tail(text)) ELSE text

RECURSIVE RStrip(_)
RStrip(text) ==
    IF text # <<>> /\ text[Len(text)] = Space
    THEN RStrip(SubSeq(text, 1, Len(text) - 1))
    ELSE text

\* str.strip()
Strip(text) == RStrip(LStrip(text))

\* str.replace(tok, "")
Replace(text, tok) == SelectSeq(text, LAMBDA t : t # tok)

\* agent.py 129-133: .strip(), then both markers replaced by ""
StripFences(text) == Replace(Replace(Strip(text), FenceJson), Fence)

\* json.loads: surrounding whitespace is ignored, exactly one JSON document
\* must remain; anything else raises JSONDecodeError (ok = FALSE).
JsonLoads(text) ==
    LET body == Replace(text, Space)
    IN  IF Len(body) = 1 /\ body[1] \in JsonDocs
        THEN [ok |-> TRUE, value |-> JsonValue(body[1])]
        ELSE [ok |-> FALSE, value |-> [type |-> "none", fields |-> {}]]

---------------------------------------------------------------------------
(* Inputs *)

UserIds == {"u1", "u2"}

Documents == {<<"lease">>, <<>>}

\* Raw replies of the model to a prompt asking for the analysis JSON.
ModelReplies ==
    { <<"{analysis}">>,
      <<FenceJson, Space, "{analysis}", Space, Fence>>,
      <<Space, "{analysis}", Space>>,
      <<"{summary}">>,
      <<FenceJson, "{summary}", Fence>>,
      <<"[]">>,
      <<"prose">>,
      <<"prose", Space, "{analysis}">>,
      <<>> }

SaveArgs ==
    { [user_id |-> u, analysis_data |-> d] :
        u \in UserIds, d \in {"{analysis}", "prose"} }
    \cup { [analysis_data |-> "{analysis}"] }

ScheduleArgs ==
    { [summary |-> "Review lease", description |-> "Red clause", date |-> "2025-01-01"],
      [summary |-> "Review lease", description |-> "Red clause"] }

\* The parts a reply of the tool-selection call can hold: function calls of
\* the two declared tools, a function call of another name, and plain text.
PartChoices ==
    { [function_call |-> [name |-> "save_analysis_to_vault", args |-> a]] : a \in SaveArgs }
    \cup { [function_call |-> [name |-> "schedule_follow_up_event", args |-> a]] : a \in ScheduleArgs }
    \cup { [function_call |-> [name |-> "send_email", args |-> [to |-> "landlord"]]],
           [text |-> "Done."] }

PartLists == UNION { [1..k -> PartChoices] : k \in 0..MaxParts }

---------------------------------------------------------------------------
(* Tool functions of agent.py *)

NoResult == [returned |-> FALSE]

Returned(analysis, actions) ==
    [returned |-> TRUE, analysis |-> analysis, actions_taken |-> actions]

\* A confirmation string, by its parts.
Confirmation(tool, msg, doc, summary, date) ==
    [tool |-> tool, msg |-> msg, doc |-> doc, summary |-> summary, date |-> date]

\* What a call gives: a return value, or an exception; the database after it;
\* whether the function body was entered.
Ret(value, vault, tr) == [raised |-> FALSE, exc |-> "none", ret |-> value, db |-> vault, trace |-> tr]
Raise(exc, vault, tr) ==
    [raised |-> TRUE, exc |-> exc,
     ret |-> Confirmation("none", "none", 0, "", ""), db |-> vault, trace |-> tr]

\* The identifier Firestore gives a new document.
NewDocId(vault) == Len(vault) + 1

Entered(tr, tool) == Append(tr, [op |-> tool, prompt |-> "none"])

\* Variant without the try/except: a write error leaves the function.
save_analysis_to_vault_raising(args, vault, writeOk, tr) ==
    LET parsed == JsonLoads(<<args.analysis_data>>)
        tr1 == Entered(tr, "save_analysis_to_vault")
    IN  IF parsed.ok /\ parsed.value.type = "object" /\ writeOk
        THEN Ret(Confirmation("save_analysis_to_vault", "Successfully saved analysis with document ID",
                              NewDocId(vault), "", ""),
                 Append(vault, [user |-> args.user_id, data |-> parsed.value, id |-> NewDocId(vault)]),
                 tr1)
        ELSE Raise("FirestoreError", vault, tr1)

\* agent.py 34-51.  writeOk: whether Firestore accepts the write.
save_analysis_to_vault(args, vault, writeOk, tr) ==
    LET parsed == JsonLoads(<<args.analysis_data>>)
        tr1 == Entered(tr, "save_analysis_to_vault")
    IN  IF parsed.ok /\ parsed.value.type = "object" /\ writeOk
        THEN Ret(Confirmation("save_analysis_to_vault", "Successfully saved analysis with document ID",
                              NewDocId(vault), "", ""),
                 Append(vault, [user |-> args.user_id, data |-> parsed.value, id |-> NewDocId(vault)]),
                 tr1)
        ELSE Ret(Confirmation("save_analysis_to_vault", "Error: Could not save the analysis",
                              0, "", ""),
                 vault, tr1)

\* agent.py 54-62: a placeholder, it only builds the confirmation.
schedule_follow_up_event(args, vault, tr) ==
    Ret(Confirmation("schedule_follow_up_event", "Confirmation: An event was scheduled",
                     0, args.summary, args.date),
        vault, Entered(tr, "schedule_follow_up_event"))

\* The parameters of the two functions (none has a default).
Params(name) ==
    IF name = "save_analysis_to_vault" THEN {"user_id", "analysis_data"}
    ELSE IF name = "schedule_follow_up_event" THEN {"summary", "description", "date"}
    ELSE {}

\* f(**args) binds when the keys are exactly the parameters of f.
Binds(name, args) == DOMAIN args = Params(name)


\* f(**args): TypeError before the body runs when the arguments do not bind.
Invoke(call, vault, writeOk, tr) ==
    IF ~Binds(call.name, call.args) THEN Raise("TypeError", vault, tr)
    ELSE IF call.name = "save_analysis_to_vault"
         THEN save_analysis_to_vault(call.args, vault, writeOk, tr)
         ELSE schedule_follow_up_event(call.args, vault, tr)

---------------------------------------------------------------------------
(* The dispatch loop of run_analysis_agent (agent.py 162-184) *)

\* The state one iteration leaves: the exception it raised if any, the list,
\* the database and the calls made.
LoopState(raised, exc, acts, vault, tr) ==
    [raised |-> raised, exc |-> exc, actions |-> acts, db |-> vault, trace |-> tr]

\* hasattr(part, "function_call")
HasFunctionCall(part) == "function_call" \in DOMAIN part

\* Variant: the result is inserted at the front of the list.
CollectFront(acts, result) == <<result>> \o acts

\* actions_taken.append(result)
Collect(acts, result) == Append(acts, result)

\* Variant: a tool that already has a confirmation in the list is not run
\* again.
RunToolOnce(call, acts, vault, writeOk, tr) ==
    IF \E i \in DOMAIN acts : acts[i].tool = call.name
    THEN LoopState(FALSE, "none", acts, vault, tr)
    ELSE LET r == Invoke(call, vault, writeOk, tr)
         IN  IF r.raised
             THEN LoopState(TRUE, r.exc, acts, r.db, r.trace)
             ELSE LoopState(FALSE, "none", Collect(acts, r.ret), r.db, r.trace)

\* Variant: an exception of the call is caught and the loop goes on with
\* the confirmations collected so far.
RunToolCatching(call, acts, vault, writeOk, tr) ==
    LET r == Invoke(call, vault, writeOk, tr)
    IN  IF r.raised
        THEN LoopState(FALSE, "none", acts, r.db, r.trace)
        ELSE LoopState(FALSE, "none", Collect(acts, r.ret), r.db, r.trace)

\* result = f(**args); actions_taken.append(result)
RunTool(call, acts, vault, writeOk, tr) ==
    LET r == Invoke(call, vault, writeOk, tr)
    IN  IF r.raised
        THEN LoopState(TRUE, r.exc, acts, r.db, r.trace)
        ELSE LoopState(FALSE, "none", Collect(acts, r.ret), r.db, r.trace)

\* Variant: a name outside the table raises.
NoMatchRaises(acts, vault, tr) == LoopState(TRUE, "KeyError", acts, vault, tr)

\* A name that matches neither branch of the if/elif: nothing happens.
NoMatch(acts, vault, tr) == LoopState(FALSE, "none", acts, vault, tr)

\* One iteration of the for loop over the parts.
DispatchOne(part, acts, vault, writeOk, tr) ==
    IF ~HasFunctionCall(part) THEN LoopState(FALSE, "none", acts, vault, tr)
    ELSE LET call == part.function_call
         IN  IF call.name = "save_analysis_to_vault"
                THEN RunTool(call, acts, vault, writeOk, tr)
             ELSE IF call.name = "schedule_follow_up_event"
                THEN RunTool(call, acts, vault, writeOk, tr)
             ELSE NoMatch(acts, vault, tr)

---------------------------------------------------------------------------
(* run_analysis_agent (agent.py 107-192) *)

\* Variant: the call is made a second time (a retry).
generate_content_retry(tr, prompt) ==
    tr \o << [op |-> "generate_content", prompt |-> prompt],
             [op |-> "generate_content", prompt |-> prompt] >>

\* model.generate_content(prompt): one call to the model.
generate_content(tr, prompt) == Append(tr, [op |-> "generate_content", prompt |-> prompt])

Init ==
    /\ pc = "idle"
    /\ user_id = "none"
    /\ document_text = <<>>
    /\ analysis_json_string = <<>>
    /\ parts = <<>>
    /\ idx = 1
    /\ actions_taken = <<>>
    /\ final_result = NoResult
    /\ error = "none"
    /\ db = <<>>
    /\ trace = <<>>
    /\ apc = "idle"
    /\ request_data = <<>>
    /\ response = [status |-> 0, body |-> [type |-> "none", fields |-> {}]]
    /\ app_model_calls = 0
    /\ analysis_result_text = <<>>
    /\ app_error = "none"
    /\ document_id = 0

\* A caller enters run_analysis_agent(uid, doc).
RunAnalysisAgent(uid, doc) ==
    /\ pc = "idle" /\ apc = "idle"
    /\ pc' = "step1"
    /\ user_id' = uid
    /\ document_text' = doc
    /\ UNCHANGED <<analysis_json_string, parts, idx, actions_taken,
                   final_result, error, db, trace>>
    /\ UNCHANGED appVars

\* Step 1: the analysis call returns a reply, which is cleaned.
AnalysisCall ==
    /\ pc = "step1"
    /\ \E reply \in ModelReplies :
          analysis_json_string' = StripFences(reply)
    /\ trace' = generate_content(trace, "analysis_prompt")
    /\ pc' = "step2"
    /\ UNCHANGED <<user_id, document_text, parts, idx, actions_taken,
                   final_result, error, db>>
    /\ UNCHANGED appVars

\* Step 1, the model client raising.
AnalysisCallFails ==
    /\ pc = "step1"
    /\ trace' = generate_content(trace, "analysis_prompt")
    /\ pc' = "failed"
    /\ error' = "ModelError"
    /\ UNCHANGED <<user_id, document_text, analysis_json_string, parts, idx,
                   actions_taken, final_result, db>>
    /\ UNCHANGED appVars

\* Step 2: the tool-selection call returns the parts; actions_taken = [].
ToolSelectionCall ==
    /\ pc = "step2"
    /\ \E ps \in PartLists : parts' = ps
    /\ trace' = generate_content(trace, "reasoning_prompt")
    /\ idx' = 1
    /\ actions_taken' = <<>>
    /\ pc' = "step3"
    /\ UNCHANGED <<user_id, document_text, analysis_json_string,
                   final_result, error, db>>
    /\ UNCHANGED appVars

\* Step 2, the model client raising (or a reply with no candidate).
ToolSelectionFails ==
    /\ pc = "step2"
    /\ trace' = generate_content(trace, "reasoning_prompt")
    /\ pc' = "failed"
    /\ error' = "ModelError"
    /\ UNCHANGED <<user_id, document_text, analysis_json_string, parts, idx,
                   actions_taken, final_result, db>>
    /\ UNCHANGED appVars

\* Step 3: one iteration of the loop; an exception leaves the function.
DispatchPart ==
    /\ pc = "step3"
    /\ idx <= Len(parts)
    /\ \E writeOk \in BOOLEAN :
          LET o == DispatchOne(parts[idx], actions_taken, db, writeOk, trace)
          IN  /\ db' = o.db
              /\ trace' = o.trace
              /\ actions_taken' = o.actions
              /\ IF o.raised
                 THEN pc' = "failed" /\ error' = o.exc /\ idx' = idx
                 ELSE pc' = "step3" /\ error' = error /\ idx' = idx + 1
    /\ UNCHANGED <<user_id, document_text, analysis_json_string, parts,
                   final_result>>
    /\ UNCHANGED appVars

\* After the loop: json.loads(analysis_json_string) and the return.
BuildResult ==
    /\ pc = "step3"
    /\ idx > Len(parts)
    /\ LET parsed == JsonLoads(analysis_json_string)
       IN  IF parsed.ok
           THEN /\ pc' = "returned"
                /\ final_result' = Returned(parsed.value, actions_taken)
                /\ error' = error
           ELSE /\ pc' = "failed"
                /\ final_result' = final_result
                /\ error' = "JSONDecodeError"
    /\ UNCHANGED <<user_id, document_text, analysis_json_string, parts, idx,
                   actions_taken, db, trace>>
    /\ UNCHANGED appVars

---------------------------------------------------------------------------
(* app.py: save_analysis_to_vault and the /analyze endpoint *)

AppUserId == "user_12345"

RequestBodies ==
    { <<>>,
      [document |-> <<"lease">>],
      [text |-> <<>>],
      [text |-> <<"lease">>] }

ErrorBody(fields) == [type |-> "object", fields |-> fields]

\* app.py 82-97: the new document id, or None (0) on any error.
app_save_analysis_to_vault(uid, analysis_data, vault, writeOk) ==
    IF analysis_data.type = "object" /\ writeOk
    THEN [id |-> NewDocId(vault),
          db |-> Append(vault, [user |-> uid, data |-> analysis_data, id |-> NewDocId(vault)])]
    ELSE [id |-> 0, db |-> vault]

\* app.py 141-145: not data or 'text' not in data
InvalidRequest(data) == DOMAIN data = {} \/ "text" \notin DOMAIN data

\* app.py 136-171, the whole handler.  modelOk: the model call returns;
\* reply: what it returns; writeOk: whether Firestore accepts the write.
analyze_endpoint(data, modelOk, reply, writeOk, vault) ==
    IF InvalidRequest(data)
    THEN [status |-> 400, body |-> ErrorBody({"error"}), model_calls |-> 0,
          text |-> <<>>, exc |-> "none", document_id |-> 0, db |-> vault]
    ELSE IF ~modelOk
    THEN [status |-> 500, body |-> ErrorBody({"error", "details"}), model_calls |-> 1,
          text |-> <<>>, exc |-> "ModelError", document_id |-> 0, db |-> vault]
    ELSE LET parsed == JsonLoads(reply)
         IN  IF ~parsed.ok
             THEN [status |-> 500, body |-> ErrorBody({"error", "details"}), model_calls |-> 1,
                   text |-> reply, exc |-> "JSONDecodeError", document_id |-> 0, db |-> vault]
             ELSE LET saved == app_save_analysis_to_vault(AppUserId, parsed.value, vault, writeOk)
                  IN  [status |-> 200,
                       body |-> IF saved.id # 0
                                THEN [type |-> parsed.value.type,
                                      fields |-> parsed.value.fields \cup {"vault_document_id"}]
                                ELSE parsed.value,
                       model_calls |-> 1, text |-> reply, exc |-> "none",
                       document_id |-> saved.id, db |-> saved.db]

\* A POST /analyze request is handled.
AnalyzeEndpoint ==
    /\ apc = "idle" /\ pc = "idle"
    /\ \E data \in RequestBodies, modelOk \in BOOLEAN,
          reply \in ModelReplies, writeOk \in BOOLEAN :
          LET o == analyze_endpoint(data, modelOk, reply, writeOk, db)
          IN  /\ request_data' = data
              /\ response' = [status |-> o.status, body |-> o.body]
              /\ app_model_calls' = o.model_calls
              /\ analysis_result_text' = o.text
              /\ app_error' = o.exc
              /\ document_id' = o.document_id
              /\ db' = o.db
    /\ apc' = "responded"
    /\ UNCHANGED agentVars

---------------------------------------------------------------------------

Next ==
    \/ \E uid \in UserIds, doc \in Documents : RunAnalysisAgent(uid, doc)
    \/ AnalysisCall
    \/ AnalysisCallFails
    \/ ToolSelectionCall
    \/ ToolSelectionFails
    \/ DispatchPart
    \/ BuildResult
    \/ AnalyzeEndpoint

Spec == Init /\ [][Next]_vars

---------------------------------------------------------------------------
(* Vocabulary of the properties *)

ToolNames == {"save_analysis_to_vault", "schedule_follow_up_event"}

\* The Analysis shape: an object with summary and risk_analysis.
IsAnalysisShape(v) ==
    v.type = "object" /\ {"summary", "risk_analysis"} \subseteq v.fields

\* A part that names one of the two tools.
Names(part, tool) == HasFunctionCall(part) /\ part.function_call.name = tool
Recognized(part) == \E t \in ToolNames : Names(part, t)

\* The part is a call of a tool whose arguments do not bind.
Throws(part) ==
    Recognized(part) /\ ~Binds(part.function_call.name, part.function_call.args)

\* How often the first k parts name the tool, and how often its body ran.
Named(tool, k) == Cardinality({i \in 1..k : Names(parts[i], tool)})
Executions(tool) == Cardinality({i \in DOMAIN trace : trace[i].op = tool})
ModelCalls == Cardinality({i \in DOMAIN trace : trace[i].op = "generate_content"})

\* run_analysis_agent has made the tool-selection call and got its reply.
Dispatching == pc \in {"step3", "returned"} \/ (pc = "failed" /\ error # "ModelError")
Finished == pc \in {"returned", "failed"}

---------------------------------------------------------------------------
(* C1 *)

\* C1: whenever run_analysis_agent returns a result, the cleaned first reply
\* parsed as the Analysis shape (an object with summary and risk_analysis);
\* a reply that does not parse so never gives a result.
C1_ResultOnlyForAnalysisShape ==
    pc = "returned" =>
        /\ JsonLoads(analysis_json_string).ok
        /\ IsAnalysisShape(JsonLoads(analysis_json_string).value)
        /\ IsAnalysisShape(final_result.analysis)

---------------------------------------------------------------------------
(* C2 *)

\* C2: the actions_taken of a returned result holds exactly one confirmation
\* per recognized tool call of the reply, in the order the reply lists them,
\* each the confirmation of that call.
C2_ConfirmationsInListedOrder ==
    pc = "returned" =>
        LET calls == SelectSeq(parts, Recognized)
            acts == final_result.actions_taken
        IN  /\ Len(acts) = Len(calls)
            /\ \A k \in 1..Len(calls) :
                  /\ acts[k].tool = calls[k].function_call.name
                  /\ acts[k].tool = "schedule_follow_up_event" =>
                        /\ acts[k].summary = calls[k].function_call.args.summary
                        /\ acts[k].date = calls[k].function_call.args.date

\* A reply that requests both tools, the calendar tool first, has returned.
C2_BothToolsReturned ==
    /\ pc = "returned"
    /\ Len(parts) = 2
    /\ Names(parts[1], "schedule_follow_up_event")
    /\ Names(parts[2], "save_analysis_to_vault")
    /\ Len(final_result.actions_taken) = 2
    /\ final_result.actions_taken[1].tool = "schedule_follow_up_event"
    /\ final_result.actions_taken[2].tool = "save_analysis_to_vault"

---------------------------------------------------------------------------
(* C3 *)

\* C3 as stated: once the run has ended after the tool-selection reply, each
\* tool ran exactly as many times as the reply names it.
C3_ExecutedAsOftenAsNamed ==
    (Finished /\ Dispatching) =>
        \A t \in ToolNames : Executions(t) = Named(t, Len(parts))

\* C3 as amended: at every point of the dispatch each tool has run exactly as
\* many times as the parts dispatched without an exception name it (all the
\* parts once the loop has ended normally), with no deduplication; when these
\* parts name no tool, actions_taken is empty and nothing was written.
C3_ExecutedAsNamedUpToRaise ==
    Dispatching =>
        /\ \A t \in ToolNames : Executions(t) = Named(t, idx - 1)
        /\ (pc = "returned" => idx - 1 = Len(parts))
        /\ (\A t \in ToolNames : Named(t, idx - 1) = 0) =>
              /\ actions_taken = <<>>
              /\ db = <<>>

\* A reply naming the persistence tool twice has returned, the tool ran twice.
C3_SameToolTwice ==
    /\ pc = "returned"
    /\ Named("save_analysis_to_vault", Len(parts)) = 2
    /\ Executions("save_analysis_to_vault") = 2
    /\ Len(final_result.actions_taken) = 2

---------------------------------------------------------------------------
(* C4 *)

\* C4: an iteration on a function call whose name is neither of the two tools
\* raises nothing, runs no tool, writes nothing, leaves actions_taken as it
\* is, and the loop goes on to the next part.
C4_UnknownToolSkipped ==
    [][ ( /\ pc = "step3"
          /\ idx <= Len(parts)
          /\ HasFunctionCall(parts[idx])
          /\ ~Recognized(parts[idx]) )
        => ( /\ pc' = "step3"
             /\ idx' = idx + 1
             /\ error' = "none"
             /\ actions_taken' = actions_taken
             /\ trace' = trace
             /\ db' = db ) ]_vars

\* An unknown name was skipped and the call listed after it was dispatched.
C4_SkippedThenDispatched ==
    /\ pc = "returned"
    /\ Len(parts) = 2
    /\ HasFunctionCall(parts[1]) /\ ~Recognized(parts[1])
    /\ Names(parts[2], "save_analysis_to_vault")
    /\ Len(final_result.actions_taken) = 1
    /\ Executions("save_analysis_to_vault") = 1

---------------------------------------------------------------------------
(* C5 *)

\* C5: a request whose body has no text field, or an empty text, is answered
\* 400 with an error field, with no model call and no write.
C5_BlankOrMissingTextRejected ==
    ( /\ apc = "responded"
      /\ ("text" \notin DOMAIN request_data \/ request_data.text = <<>>) )
    => /\ response.status = 400
       /\ "error" \in response.body.fields
       /\ app_model_calls = 0
       /\ db = <<>>

---------------------------------------------------------------------------
(* C6 *)

\* C6 as stated: when a persistence invocation has thrown, the run still
\* gives a result holding the confirmations collected before it.
C6_PriorConfirmationsReturned ==
    ( /\ pc = "failed"
      /\ error = "TypeError"
      /\ Names(parts[idx], "save_analysis_to_vault") )
    => /\ final_result.returned
       /\ final_result.actions_taken = actions_taken

\* C6 as amended: when a persistence invocation throws, the run fails and
\* gives no result at all; the confirmations collected before it (one per
\* recognized call dispatched earlier, none for the failed call) are lost
\* with it.  A reply holding a persistence call that throws never gives a
\* result.
C6_ThrowFailsWholeRun ==
    /\ ( /\ Dispatching
         /\ \E i \in 1..Len(parts) :
               Names(parts[i], "save_analysis_to_vault") /\ Throws(parts[i]) )
       => (pc # "returned" /\ final_result = NoResult)
    /\ (pc = "failed" /\ error = "TypeError")
       => /\ Throws(parts[idx])
          /\ final_result = NoResult
          /\ Len(actions_taken) = Len(SelectSeq(SubSeq(parts, 1, idx - 1), Recognized))

\* A persistence call threw after one confirmation had been collected.
C6_ThrowAfterConfirmation ==
    /\ pc = "failed"
    /\ error = "TypeError"
    /\ idx = 2
    /\ Names(parts[2], "save_analysis_to_vault")
    /\ Len(actions_taken) = 1

---------------------------------------------------------------------------
(* C7 *)

\* C7: a write error inside the persistence tool never fails the request.
\* agent.py: run_analysis_agent fails only by the model client raising, by a
\* call whose arguments do not bind, or by the first reply not being JSON,
\* and every run of the tool body leaves a confirmation in actions_taken,
\* written or not.  app.py: the
\* endpoint answers 500 only for a model error or a reply that is not JSON,
\* and when the write failed it answers 200 with the analysis as parsed,
\* without a vault_document_id field.
C7_WriteErrorNeverFailsRequest ==
    /\ pc = "failed" =>
          \/ error = "ModelError"
          \/ error = "TypeError" /\ Throws(parts[idx])
          \/ error = "JSONDecodeError" /\ ~JsonLoads(analysis_json_string).ok
    /\ Dispatching =>
          LET saves == {k \in DOMAIN actions_taken :
                          actions_taken[k].tool = "save_analysis_to_vault"}
          IN  /\ Executions("save_analysis_to_vault") = Cardinality(saves)
              /\ Len(db) = Cardinality({k \in saves : actions_taken[k].doc # 0})
    /\ (apc = "responded" /\ response.status = 500) =>
          \/ app_error = "ModelError"
          \/ app_error = "JSONDecodeError" /\ ~JsonLoads(analysis_result_text).ok
    /\ (apc = "responded" /\ app_model_calls = 1 /\ app_error = "none" /\ db = <<>>) =>
          /\ response.status = 200
          /\ document_id = 0
          /\ response.body = JsonLoads(analysis_result_text).value
          /\ "vault_document_id" \notin response.body.fields

\* The endpoint has answered a request whose write failed.
C7_WriteFailedAnswered ==
    /\ apc = "responded"
    /\ app_model_calls = 1
    /\ app_error = "none"
    /\ db = <<>>
    /\ IsAnalysisShape(response.body)
    /\ response.status = 200

---------------------------------------------------------------------------
(* C8 *)

\* C8: the calls of one request are made in a fixed order, one at a time:
\* the analysis call, then the tool-selection call, then the tools, one per
\* dispatched part at most; a returned request made exactly two model calls.
C8_StrictSequence ==
    /\ \A i \in DOMAIN trace :
          /\ i = 1 => trace[i] = [op |-> "generate_content", prompt |-> "analysis_prompt"]
          /\ i = 2 => trace[i] = [op |-> "generate_content", prompt |-> "reasoning_prompt"]
          /\ i > 2 => trace[i].op \in ToolNames
    /\ pc = "idle" => trace = <<>>
    /\ pc = "step1" => trace = <<>>
    /\ pc = "step2" => Len(trace) = 1
    /\ Dispatching =>
          /\ Len(trace) >= 2
          /\ Len(trace) - 2 <= Len(SelectSeq(parts, Recognized))
          /\ \A k \in 1..(Len(trace) - 2) :
                trace[k + 2].op = SelectSeq(parts, Recognized)[k].function_call.name
    /\ pc = "returned" => ModelCalls = 2

\* A request with two tool calls has returned.
C8_TwoCallsTwoTools ==
    /\ pc = "returned"
    /\ Len(trace) = 4
    /\ trace[3].op = "save_analysis_to_vault"
    /\ trace[4].op = "schedule_follow_up_event"

---------------------------------------------------------------------------
(* C9 *)

\* C9: when run_analysis_agent fails because the first reply is not JSON, no
\* tool has run (no persistence call, no calendar call) and nothing was
\* written in that request.
C9_NothingBeforeParse ==
    (pc = "failed" /\ error = "JSONDecodeError") =>
        /\ \A t \in ToolNames : Executions(t) = 0
        /\ db = <<>>

---------------------------------------------------------------------------
(* C10 *)

\* C10: every document written during run_analysis_agent(user_id, ...) is
\* written under that user_id.
C10_WritesUnderCallerUserId ==
    pc # "idle" => \A i \in DOMAIN db : db[i].user = user_id

=============================================================================
